---- MODULE Spec2Model ----
(***************************************************************************)
(* TruckersMP API proxy (src/main.go): the gin engine built by             *)
(* setupRoutes (CORS middleware, /health, the forwarded routes, NoRoute),  *)
(* validateID, and ProxyServer.proxyRequest.                               *)
(*                                                                         *)
(* Text that the code parses or formats (path segments, HTTP methods) is   *)
(* a sequence of one-character strings; a JSON body is a sequence of       *)
(* lexical tokens.  One inbound request is followed from its arrival to    *)
(* its response; requests share no state (spec section 5).                 *)
(***************************************************************************)
EXTENDS Integers, Sequences, FiniteSets, TLC

\* Largest number of values one header name carries in a modelled message.
MaxVals == 2

----------------------------------------------------------------------------
\* Text

W_GET == <<"G","E","T">>
W_POST == <<"P","O","S","T">>
W_OPTIONS == <<"O","P","T","I","O","N","S">>
W_BADMETHOD == <<"G","E"," ","T">>

W_health == <<"h","e","a","l","t","h">>
W_player == <<"p","l","a","y","e","r">>
W_bans == <<"b","a","n","s">>
W_servers == <<"s","e","r","v","e","r","s">>
W_game_time == <<"g","a","m","e","_","t","i","m","e">>
W_events == <<"e","v","e","n","t","s">>
W_user == <<"u","s","e","r">>
W_vtc == <<"v","t","c">>
W_news == <<"n","e","w","s">>
W_roles == <<"r","o","l","e","s">>
W_role == <<"r","o","l","e">>
W_members == <<"m","e","m","b","e","r","s">>
W_member == <<"m","e","m","b","e","r">>
W_attending == <<"a","t","t","e","n","d","i","n","g">>
W_partners == <<"p","a","r","t","n","e","r","s">>
W_version == <<"v","e","r","s","i","o","n">>
W_rules == <<"r","u","l","e","s">>
W_nonexistent == <<"n","o","n","e","x","i","s","t","e","n","t">>

DigitChars == <<"0","1","2","3","4","5","6","7","8","9">>

IsDigit(c) == \E i \in 1..10 : DigitChars[i] = c

DigitVal(c) == (CHOOSE i \in 1..10 : DigitChars[i] = c) - 1

AllDigits(s) == \A i \in 1..Len(s) : IsDigit(s[i])

RECURSIVE StripZeros(_)
StripZeros(s) ==
  IF Len(s) > 1 /\ Head(s) = "0" THEN StripZeros(Tail(s)) ELSE s

RECURSIVE LexGreater(_, _)
\* For digit strings of equal length: a > b.
LexGreater(a, b) ==
  IF a = <<>> THEN FALSE
  ELSE IF DigitVal(Head(a)) # DigitVal(Head(b))
       THEN DigitVal(Head(a)) > DigitVal(Head(b))
       ELSE LexGreater(Tail(a), Tail(b))

\* The magnitude written by digit string d exceeds the one written by lim.
Exceeds(d, lim) ==
  LET m == StripZeros(d)
  IN  \/ Len(m) > Len(lim)
      \/ Len(m) = Len(lim) /\ LexGreater(m, lim)

RECURSIVE DigitsValue(_)
DigitsValue(d) ==
  IF d = <<>> THEN 0
  ELSE DigitsValue(SubSeq(d, 1, Len(d) - 1)) * 10 + DigitVal(d[Len(d)])

\* 2^63 - 1 and 2^63: the range of int on a 64-bit build.
MaxIntDigits ==
  <<"9","2","2","3","3","7","2","0","3","6","8","5","4","7","7","5","8","0","7">>
MinIntMagnitude ==
  <<"9","2","2","3","3","7","2","0","3","6","8","5","4","7","7","5","8","0","8">>

\* strconv.Atoi: an optional sign, then decimal digits, within the range of int.
\* On an error the code never reads the value (it is 0 here).
Atoi(s) ==
  LET signed == Len(s) > 0 /\ s[1] \in {"+", "-"}
      neg    == Len(s) > 0 /\ s[1] = "-"
      digs   == IF signed THEN Tail(s) ELSE s
  IN  IF Len(digs) = 0 \/ ~AllDigits(digs)
      THEN [err |-> TRUE, val |-> 0]
      ELSE IF Exceeds(digs, IF neg THEN MinIntMagnitude ELSE MaxIntDigits)
      THEN [err |-> TRUE, val |-> 0]
      ELSE [err |-> FALSE,
            val |-> IF neg THEN 0 - DigitsValue(digs) ELSE DigitsValue(digs)]

RECURSIVE NatDigits(_)
NatDigits(n) ==
  IF n < 10 THEN <<DigitChars[n + 1]>>
  ELSE Append(NatDigits(n \div 10), DigitChars[(n % 10) + 1])

\* fmt's %d verb.
FormatInt(n) == IF n < 0 THEN <<"-">> \o NatDigits(0 - n) ELSE NatDigits(n)

----------------------------------------------------------------------------
\* HTTP header maps (net/http.Header): each name carries a sequence of values.

H_UserAgent == "User-Agent"
H_Accept == "Accept"
H_Trace == "X-Trace"
H_ContentType == "Content-Type"
H_SetCookie == "Set-Cookie"
H_AllowOrigin == "Access-Control-Allow-Origin"
H_AllowMethods == "Access-Control-Allow-Methods"
H_AllowHeaders == "Access-Control-Allow-Headers"

HeaderNames ==
  {H_UserAgent, H_Accept, H_Trace, H_ContentType, H_SetCookie,
   H_AllowOrigin, H_AllowMethods, H_AllowHeaders}

EmptyHeader == [n \in HeaderNames |-> <<>>]

HeaderSet(h, k, v) == [h EXCEPT ![k] = <<v>>]

HeaderAdd_Overwrite(h, k, v) == [h EXCEPT ![k] = <<v>>]

HeaderAdd(h, k, v) == [h EXCEPT ![k] = Append(@, v)]

HeaderDel(h, k) == [h EXCEPT ![k] = <<>>]

HeaderGet(h, k) == IF h[k] = <<>> THEN "" ELSE h[k][1]

\* gin's c.Header(key, value): an empty value deletes, any other value replaces.
GinHeader(h, k, v) == IF v = "" THEN HeaderDel(h, k) ELSE HeaderSet(h, k, v)

\* gin's writeContentType: sets Content-Type only when the response has none.
WriteContentType(h, ct) ==
  IF h[H_ContentType] = <<>> THEN [h EXCEPT ![H_ContentType] = <<ct>>] ELSE h

JSONContentType == "application/json; charset=utf-8"

----------------------------------------------------------------------------
\* JSON (encoding/json).  A body is a sequence of tokens; a number token is a
\* non-negative integer literal hi * 2^27 + lo.

LimbBase == 2 ^ 27
Float64ExactHi == 2 ^ 26

Tok(t) == [t |-> t, s |-> "", hi |-> 0, lo |-> 0]
TStr(s) == [t |-> "str", s |-> s, hi |-> 0, lo |-> 0]
TNum(hi, lo) == [t |-> "num", s |-> "", hi |-> hi, lo |-> lo]

JV(t, b, s, hi, lo, a, o) ==
  [t |-> t, b |-> b, s |-> s, hi |-> hi, lo |-> lo, a |-> a, o |-> o]
JNull == JV("null", FALSE, "", 0, 0, <<>>, {})
JBool(b) == JV("bool", b, "", 0, 0, <<>>, {})
JStr(s) == JV("str", FALSE, s, 0, 0, <<>>, {})
JNum(n) == JV("num", FALSE, "", n[1], n[2], <<>>, {})
JArr(a) == JV("arr", FALSE, "", 0, 0, a, {})
JObj(o) == JV("obj", FALSE, "", 0, 0, <<>>, o)

\* The float64 nearest to the integer hi * 2^27 + lo < 2^54 (round half to
\* even): integers below 2^53 are exact, above that only even ones are.
Float64(hi, lo) ==
  IF hi < Float64ExactHi \/ lo % 2 = 0 THEN <<hi, lo>>
  ELSE IF (lo - 1) % 4 = 0 THEN <<hi, lo - 1>>
  ELSE IF lo + 1 = LimbBase THEN <<hi + 1, 0>>
  ELSE <<hi, lo + 1>>

\* How a number literal is stored: as float64 (Unmarshal into interface{}) or,
\* for comparison of JSON texts, exactly.
NumberValue(tk, asFloat) ==
  IF asFloat THEN Float64(tk.hi, tk.lo) ELSE <<tk.hi, tk.lo>>

RECURSIVE SkipWs(_, _)
SkipWs(toks, i) ==
  IF i <= Len(toks) /\ toks[i].t = "ws" THEN SkipWs(toks, i + 1) ELSE i

ParseFail == [ok |-> FALSE, v |-> JNull, next |-> 0]
ParseOk(v, next) == [ok |-> TRUE, v |-> v, next |-> next]

\* Object members: a later duplicate key replaces the earlier one (Go map).
PutMember(o, k, v) == {p \in o : p[1] # k} \cup {<<k, v>>}

RECURSIVE ParseValue(_, _, _), ParseElems(_, _, _, _), ParseMembers(_, _, _, _)
ParseValue(toks, i0, asFloat) ==
  LET i == SkipWs(toks, i0)
  IN  IF i > Len(toks) THEN ParseFail
      ELSE LET tk == toks[i]
           IN  CASE tk.t = "null" -> ParseOk(JNull, i + 1)
                 [] tk.t = "true" -> ParseOk(JBool(TRUE), i + 1)
                 [] tk.t = "false" -> ParseOk(JBool(FALSE), i + 1)
                 [] tk.t = "str" -> ParseOk(JStr(tk.s), i + 1)
                 [] tk.t = "num" -> ParseOk(JNum(NumberValue(tk, asFloat)), i + 1)
                 [] tk.t = "[" ->
                      LET j == SkipWs(toks, i + 1)
                      IN  IF j <= Len(toks) /\ toks[j].t = "]"
                          THEN ParseOk(JArr(<<>>), j + 1)
                          ELSE ParseElems(toks, j, <<>>, asFloat)
                 [] tk.t = "{" ->
                      LET j == SkipWs(toks, i + 1)
                      IN  IF j <= Len(toks) /\ toks[j].t = "}"
                          THEN ParseOk(JObj({}), j + 1)
                          ELSE ParseMembers(toks, j, {}, asFloat)
                 [] OTHER -> ParseFail

ParseElems(toks, i, acc, asFloat) ==
  LET r == ParseValue(toks, i, asFloat)
  IN  IF ~r.ok THEN ParseFail
      ELSE LET j == SkipWs(toks, r.next)
           IN  IF j > Len(toks) THEN ParseFail
               ELSE IF toks[j].t = "," THEN ParseElems(toks, j + 1, Append(acc, r.v), asFloat)
               ELSE IF toks[j].t = "]" THEN ParseOk(JArr(Append(acc, r.v)), j + 1)
               ELSE ParseFail

ParseMembers(toks, i0, acc, asFloat) ==
  LET i == SkipWs(toks, i0)
  IN  IF i > Len(toks) \/ toks[i].t # "str" THEN ParseFail
      ELSE LET c == SkipWs(toks, i + 1)
           IN  IF c > Len(toks) \/ toks[c].t # ":" THEN ParseFail
               ELSE LET r == ParseValue(toks, c + 1, asFloat)
                    IN  IF ~r.ok THEN ParseFail
                        ELSE LET j == SkipWs(toks, r.next)
                                 o == PutMember(acc, toks[i].s, r.v)
                             IN  IF j > Len(toks) THEN ParseFail
                                 ELSE IF toks[j].t = "," THEN ParseMembers(toks, j + 1, o, asFloat)
                                 ELSE IF toks[j].t = "}" THEN ParseOk(JObj(o), j + 1)
                                 ELSE ParseFail

\* One JSON value, surrounded by optional white space, and nothing else.
Decode(toks, asFloat) ==
  LET r == ParseValue(toks, 1, asFloat)
  IN  IF r.ok /\ SkipWs(toks, r.next) > Len(toks)
      THEN [ok |-> TRUE, v |-> r.v]
      ELSE [ok |-> FALSE, v |-> JNull]

\* json.Unmarshal(body, &jsonResponse) with jsonResponse an interface{}.
Unmarshal(body) == Decode(body, TRUE)

\* Object keys in byte order, as json.Marshal sorts the keys of a map.
KeyOrder == <<"a", "b", "error", "message", "service", "status", "timestamp">>

RECURSIVE Marshal(_), MarshalElems(_, _), MarshalMembers(_, _, _)
Marshal(v) ==
  CASE v.t = "null" -> <<Tok("null")>>
    [] v.t = "bool" -> <<Tok(IF v.b THEN "true" ELSE "false")>>
    [] v.t = "str" -> <<TStr(v.s)>>
    [] v.t = "num" -> <<TNum(v.hi, v.lo)>>
    [] v.t = "arr" -> <<Tok("[")>> \o MarshalElems(v.a, 1) \o <<Tok("]")>>
    [] v.t = "obj" -> <<Tok("{")>> \o MarshalMembers(v.o, 1, TRUE) \o <<Tok("}")>>

MarshalElems(a, i) ==
  IF i > Len(a) THEN <<>>
  ELSE (IF i > 1 THEN <<Tok(",")>> ELSE <<>>) \o Marshal(a[i]) \o MarshalElems(a, i + 1)

MarshalMembers(o, i, first) ==
  IF i > Len(KeyOrder) THEN <<>>
  ELSE IF \E p \in o : p[1] = KeyOrder[i]
       THEN LET p == CHOOSE q \in o : q[1] = KeyOrder[i]
            IN  (IF first THEN <<>> ELSE <<Tok(",")>>)
                  \o <<TStr(p[1]), Tok(":")>> \o Marshal(p[2])
                  \o MarshalMembers(o, i + 1, FALSE)
       ELSE MarshalMembers(o, i + 1, first)

\* gin.H{"error": true, "message": msg}
ErrorBody(msg) == JObj({<<"error", JBool(TRUE)>>, <<"message", JStr(msg)>>})

----------------------------------------------------------------------------
\* The route table of setupRoutes.  A pattern element is a literal word or a
\* named parameter; a template element is a literal word or the k-th %d.

Lit(w) == [lit |-> TRUE, w |-> w, name |-> "", arg |-> 0]
Par(name) == [lit |-> FALSE, w |-> <<>>, name |-> name, arg |-> 0]
Fmt(k) == [lit |-> FALSE, w |-> <<>>, name |-> "", arg |-> k]

Route(kind, pat, args, tmpl) ==
  [kind |-> kind, pat |-> pat, args |-> args, tmpl |-> tmpl]

Routes ==
  << Route("health", <<Lit(W_health)>>, <<>>, <<>>),
     Route("proxy", <<Lit(W_player), Par("id")>>, <<"id">>,
           <<Lit(W_player), Fmt(1)>>),
     Route("proxy", <<Lit(W_bans), Par("id")>>, <<"id">>,
           <<Lit(W_bans), Fmt(1)>>),
     Route("proxy", <<Lit(W_servers)>>, <<>>, <<Lit(W_servers)>>),
     Route("proxy", <<Lit(W_game_time)>>, <<>>, <<Lit(W_game_time)>>),
     Route("proxy", <<Lit(W_events)>>, <<>>, <<Lit(W_events)>>),
     Route("proxy", <<Lit(W_events), Par("id")>>, <<"id">>,
           <<Lit(W_events), Fmt(1)>>),
     Route("proxy", <<Lit(W_events), Lit(W_user), Par("id")>>, <<"id">>,
           <<Lit(W_events), Lit(W_user), Fmt(1)>>),
     Route("proxy", <<Lit(W_vtc)>>, <<>>, <<Lit(W_vtc)>>),
     Route("proxy", <<Lit(W_vtc), Par("id")>>, <<"id">>,
           <<Lit(W_vtc), Fmt(1)>>),
     Route("proxy", <<Lit(W_vtc), Par("id"), Lit(W_news)>>, <<"id">>,
           <<Lit(W_vtc), Fmt(1), Lit(W_news)>>),
     Route("proxy", <<Lit(W_vtc), Par("id"), Lit(W_news), Par("news_id")>>,
           <<"id", "news_id">>,
           <<Lit(W_vtc), Fmt(1), Lit(W_news), Fmt(2)>>),
     Route("proxy", <<Lit(W_vtc), Par("id"), Lit(W_roles)>>, <<"id">>,
           <<Lit(W_vtc), Fmt(1), Lit(W_roles)>>),
     Route("proxy", <<Lit(W_vtc), Par("id"), Lit(W_role), Par("role_id")>>,
           <<"id", "role_id">>,
           <<Lit(W_vtc), Fmt(1), Lit(W_role), Fmt(2)>>),
     Route("proxy", <<Lit(W_vtc), Par("id"), Lit(W_members)>>, <<"id">>,
           <<Lit(W_vtc), Fmt(1), Lit(W_members)>>),
     Route("proxy", <<Lit(W_vtc), Par("id"), Lit(W_member), Par("member_id")>>,
           <<"id", "member_id">>,
           <<Lit(W_vtc), Fmt(1), Lit(W_member), Fmt(2)>>),
     Route("proxy", <<Lit(W_vtc), Par("id"), Lit(W_events)>>, <<"id">>,
           <<Lit(W_vtc), Fmt(1), Lit(W_events)>>),
     Route("proxy", <<Lit(W_vtc), Par("id"), Lit(W_events), Par("event_id")>>,
           <<"id", "event_id">>,
           <<Lit(W_vtc), Fmt(1), Lit(W_events), Fmt(2)>>),
     Route("proxy", <<Lit(W_vtc), Par("id"), Lit(W_events), Lit(W_attending)>>,
           <<"id">>,
           <<Lit(W_vtc), Fmt(1), Lit(W_events), Lit(W_attending)>>),
     Route("proxy", <<Lit(W_vtc), Par("id"), Lit(W_partners)>>, <<"id">>,
           <<Lit(W_vtc), Fmt(1), Lit(W_partners)>>),
     Route("proxy", <<Lit(W_version)>>, <<>>, <<Lit(W_version)>>),
     Route("proxy", <<Lit(W_rules)>>, <<>>, <<Lit(W_rules)>>) >>

\* A path (its segments) fits a pattern: literals equal, parameters non-empty.
Matches(pat, path) ==
  /\ Len(pat) = Len(path)
  /\ \A i \in 1..Len(pat) :
       IF pat[i].lit THEN path[i] = pat[i].w ELSE path[i] # <<>>

\* Of two patterns that fit the same path, gin's tree takes the one with a
\* literal at the first segment where one has a literal and the other a
\* parameter.
PreferParam(p, q) ==
  LET d == CHOOSE i \in 1..Len(p) :
             /\ p[i].lit # q[i].lit
             /\ \A j \in 1..(i - 1) : p[j].lit = q[j].lit
  IN  ~p[d].lit

Prefer(p, q) ==
  LET d == CHOOSE i \in 1..Len(p) :
             /\ p[i].lit # q[i].lit
             /\ \A j \in 1..(i - 1) : p[j].lit = q[j].lit
  IN  p[d].lit

\* All routes are registered with r.GET: only GET requests have a tree.
Matching(method, path) ==
  IF method # W_GET THEN {}
  ELSE {k \in 1..Len(Routes) : Matches(Routes[k].pat, path)}

\* The index in Routes of the handler serving the request, 0 for NoRoute.
Lookup(method, path) ==
  LET m == Matching(method, path)
  IN  IF m = {} THEN 0
      ELSE CHOOSE k \in m :
             \A l \in m \ {k} : Prefer(Routes[k].pat, Routes[l].pat)

\* c.Param(name)
Param(route, path, name) ==
  path[CHOOSE i \in 1..Len(route.pat) :
         ~route.pat[i].lit /\ route.pat[i].name = name]

\* fmt.Sprintf of a route's upstream template.
Sprintf(tmpl, ids) ==
  [i \in 1..Len(tmpl) |->
     IF tmpl[i].lit THEN tmpl[i].w ELSE FormatInt(ids[tmpl[i].arg])]

validateID_AllowNegative(idStr) ==
  LET r == Atoi(idStr)
  IN  IF r.err THEN [id |-> 0, valid |-> FALSE]
      ELSE [id |-> r.val, valid |-> TRUE]

\* validateID's result; the 400 it writes on failure is written by the
\* handler action from `rejected` below.
validateID(idStr) ==
  LET r == Atoi(idStr)
  IN  IF r.err \/ r.val < 0 THEN [id |-> 0, valid |-> FALSE]
      ELSE [id |-> r.val, valid |-> TRUE]

RECURSIVE ValidateArgs_NoReturn(_, _, _, _)
ValidateArgs_NoReturn(route, path, k, ids) ==
  IF k > Len(route.args) THEN [valid |-> TRUE, ids |-> ids, rejected |-> <<>>]
  ELSE LET r == validateID(Param(route, path, route.args[k]))
           rest == ValidateArgs_NoReturn(route, path, k + 1, Append(ids, r.id))
       IN  IF r.valid THEN rest
           ELSE [rest EXCEPT !.rejected = <<route.args[k]>> \o @]

\* The nested `if id, valid := validateID(c, name); valid {` of a handler:
\* the parameters are validated in order and the first failure ends the
\* handler.  rejected lists the parameters a 400 was written for.
RECURSIVE ValidateArgs(_, _, _, _)
ValidateArgs(route, path, k, ids) ==
  IF k > Len(route.args) THEN [valid |-> TRUE, ids |-> ids, rejected |-> <<>>]
  ELSE LET r == validateID(Param(route, path, route.args[k]))
       IN  IF r.valid THEN ValidateArgs(route, path, k + 1, Append(ids, r.id))
           ELSE [valid |-> FALSE, ids |-> ids, rejected |-> <<route.args[k]>>]

----------------------------------------------------------------------------
\* Responses (gin.Context).  status 0: none set; written: the status line and
\* headers have been sent.

StatusOK == 200
StatusNoContent == 204
StatusBadRequest == 400
StatusNotFound == 404
StatusInternalServerError == 500

NoResponse == [status |-> 0, header |-> EmptyHeader, body |-> <<>>, written |-> FALSE]

\* c.Status(code)
GinStatus(o, code) == IF o.written THEN o ELSE [o EXCEPT !.status = code]

GinJSON_StatusOK(o, code, v) ==
  [ GinStatus(o, StatusOK) EXCEPT
      !.header = WriteContentType(o.header, JSONContentType),
      !.body = o.body \o Marshal(v),
      !.written = TRUE ]

\* c.JSON(code, obj)
GinJSON(o, code, v) ==
  [ GinStatus(o, code) EXCEPT
      !.header = WriteContentType(o.header, JSONContentType),
      !.body = o.body \o Marshal(v),
      !.written = TRUE ]

\* c.Data(code, contentType, data)
GinData(o, code, ct, data) ==
  [ GinStatus(o, code) EXCEPT
      !.header = WriteContentType(o.header, ct),
      !.body = o.body \o data,
      !.written = TRUE ]

\* c.AbortWithStatus(code)
AbortWithStatus(o, code) == [ GinStatus(o, code) EXCEPT !.written = TRUE ]

\* The message of lines 42-48, which the panic at line 40 keeps from being sent.
MsgCreate == "Failed to create request"
MsgFetch == "Failed to fetch data from TruckersMP API"
MsgRead == "Failed to read response"
MsgNotFound == "Endpoint not found"
MsgInvalid(paramName) == "Invalid " \o paramName \o " parameter"

RECURSIVE Reject(_, _)
\* validateID's c.JSON(400, ...) for each rejected parameter.
Reject(o, names) ==
  IF names = <<>> THEN o
  ELSE Reject(GinJSON(o, StatusBadRequest, ErrorBody(MsgInvalid(Head(names)))),
              Tail(names))

----------------------------------------------------------------------------
\* proxyRequest

TruckersMPAPIBase == "https://api.truckersmp.com/v2"
UserAgent == "PostmanRuntime/7.36.1"
AcceptJSON == "application/json"

NonTokenChars ==
  {" ", "(", ")", "<", ">", "@", ",", ";", ":", "/", "[", "]", "?", "=", "{", "}"}

\* net/http's validMethod, which http.NewRequest applies (an empty method
\* means GET).
ValidMethod(m) == \A i \in 1..Len(m) : m[i] \notin NonTokenChars

NoRequest ==
  [built |-> FALSE, method |-> <<>>, base |-> "", path |-> <<>>,
   header |-> EmptyHeader, hasBody |-> FALSE]

RECURSIVE AddValues(_, _, _)
\* for _, value := range values { req.Header.Add(key, value) }
AddValues(h, k, vals) ==
  IF vals = <<>> THEN h
  ELSE AddValues(HeaderAdd(h, k, Head(vals)), k, Tail(vals))

RECURSIVE CopyRequestHeaders(_, _, _)
\* for key, values := range c.Request.Header (map order is unspecified; the
\* keys are distinct, so the order does not show in the result).
CopyRequestHeaders(h, src, keys) ==
  IF keys = {} THEN h
  ELSE LET k == CHOOSE x \in keys : TRUE
       IN  CopyRequestHeaders(AddValues(h, k, src[k]), src, keys \ {k})

\* http.NewRequest(method, url, nil) and the header set of lines 40-55.
BuildRequest(method, endpoint, inHeader) ==
  [built |-> TRUE,
   method |-> IF method = <<>> THEN W_GET ELSE method,
   base |-> TruckersMPAPIBase,
   path |-> endpoint,
   header |-> CopyRequestHeaders(
                HeaderSet(HeaderSet(EmptyHeader, H_UserAgent, UserAgent),
                          H_Accept, AcceptJSON),
                inHeader, {k \in HeaderNames : inHeader[k] # <<>>}),
   hasBody |-> FALSE]

NoReply ==
  [received |-> FALSE, status |-> 0, header |-> EmptyHeader,
   bodyRead |-> FALSE, body |-> <<>>]

RECURSIVE SetValues(_, _, _)
\* for _, value := range values { c.Header(key, value) }
SetValues(h, k, vals) ==
  IF vals = <<>> THEN h
  ELSE SetValues(GinHeader(h, k, Head(vals)), k, Tail(vals))

RECURSIVE CopyResponseHeaders(_, _, _)
\* for key, values := range resp.Header
CopyResponseHeaders(h, src, keys) ==
  IF keys = {} THEN h
  ELSE LET k == CHOOSE x \in keys : TRUE
       IN  CopyResponseHeaders(SetValues(h, k, src[k]), src, keys \ {k})

\* Lines 78-94: the upstream reply r, its body read, relayed on response o.
Relay(o, r, body) ==
  LET h == CopyResponseHeaders(o.header, r.header,
                               {k \in HeaderNames : r.header[k] # <<>>})
      o1 == GinStatus([o EXCEPT !.header = h], r.status)
      j == Unmarshal(body)
  IN  IF j.ok THEN GinJSON(o1, r.status, j.v)
      ELSE GinData(o1, r.status, HeaderGet(r.header, H_ContentType), body)

----------------------------------------------------------------------------
\* Inputs

\* The ORIGIN environment variable ("" when unset).
OriginEnv == {"", "https://app.example"}

Methods == {W_GET, W_POST, W_OPTIONS}

\* Values of a route's first path parameter (5, +5, -1, 2^63) and of its
\* second (12, 007, 1x, attending).
ParamValues(k) ==
  IF k = 1
  THEN { <<"5">>, <<"+","5">>, <<"-","1">>, MinIntMagnitude }
  ELSE { <<"1","2">>, <<"0","0","7">>, <<"1","x">>, W_attending }

RECURSIVE Instances(_, _)
\* The paths that fit a pattern, its k-th and later parameters filled in.
Instances(pat, k) ==
  IF pat = <<>> THEN {<<>>}
  ELSE IF Head(pat).lit
       THEN { <<Head(pat).w>> \o r : r \in Instances(Tail(pat), k) }
       ELSE { <<x>> \o r : x \in ParamValues(k), r \in Instances(Tail(pat), k + 1) }

InboundPaths ==
  UNION {Instances(Routes[k].pat, 1) : k \in 1..Len(Routes)}
    \cup {<<W_nonexistent>>, <<W_events, W_user>>}

RECURSIVE Repeat(_, _)
Repeat(v, n) == IF n = 0 THEN <<>> ELSE <<v>> \o Repeat(v, n - 1)

InboundHeaders ==
  { [EmptyHeader EXCEPT ![H_Accept] = Repeat("text/html", n),
                        ![H_Trace] = <<"t1">>] : n \in 1..MaxVals }

UpstreamStatuses == {200, 404, 500}

Cookies == <<"a=1", "b=2", "", "c=3">>

UpstreamHeaders ==
  { [EmptyHeader EXCEPT ![H_ContentType] = ct,
                        ![H_SetCookie] = SubSeq(Cookies, 1, n),
                        ![H_AllowOrigin] = ao] :
      ct \in {<<>>, <<"text/plain">>},
      n \in 1..MaxVals,
      ao \in {<<>>, <<"https://other.example">>} }

N(lo) == TNum(0, lo)
T_a == TStr("a")
T_b == TStr("b")

\* 2^53 + 1 and 2^53 + 2
BigOdd == TNum(Float64ExactHi, 1)
BigEven == TNum(Float64ExactHi, 2)

UpstreamBodies ==
  { <<>>,
    <<Tok("{"), T_a, Tok(":"), N(1), Tok("}")>>,
    <<Tok("ws"), Tok("{"), Tok("ws"), T_a, Tok(":"), Tok("ws"), N(1), Tok("}"), Tok("ws")>>,
    <<Tok("{"), T_b, Tok(":"), Tok("["), N(1), Tok(","), Tok("{"), T_a, Tok(":"),
      Tok("null"), Tok("}"), Tok("]"), Tok(","), T_a, Tok(":"), Tok("true"), Tok("}")>>,
    <<Tok("{"), T_a, Tok(":"), BigOdd, Tok("}")>>,
    <<Tok("["), BigEven, Tok("]")>>,
    <<Tok("junk")>>,
    <<Tok("{"), T_a, Tok(":")>>,
    <<Tok("{"), T_a, Tok(":"), N(1), Tok("}"), Tok("junk")>>,
    <<Tok("{"), T_a, Tok(":"), N(1), Tok(","), T_a, Tok(":"), N(2), Tok("}")>>,
    <<T_a>>,
    <<Tok("["), N(1), Tok(","), Tok("]")>> }

\* time.Now().Unix()
Timestamps == {<<13, 1>>, <<13, 2>>}

\* Direct invocations of proxyRequest (any gin.Context, any endpoint).
DirectMethods == {W_GET, W_POST, <<>>, W_BADMETHOD}
DirectEndpoints == {<<W_servers>>, <<W_player, <<"5">>>>}

----------------------------------------------------------------------------
VARIABLES
  pc,             \* where the request is: idle, middleware, dispatch, proxy,
                  \* blocked (in client.Do), readBody (in io.ReadAll), done
  allowedOrigin,  \* setupRoutes' allowedOrigin
  inbound,        \* c.Request: method, path segments, header
  endpoint,       \* proxyRequest's endpoint argument (path segments)
  req,            \* the upstream request
  resp,           \* the upstream reply
  out,            \* the response on c.Writer
  upstreamCalls,  \* calls of p.client.Do
  proxyCalls,     \* calls of proxyRequest
  nResponses,     \* responses written (c.JSON, c.Data, c.AbortWithStatus)
  exit,           \* running, normal (the handler returned), panic
  cause           \* what answered the request

vars ==
  <<pc, allowedOrigin, inbound, endpoint, req, resp, out, upstreamCalls,
    proxyCalls, nResponses, exit, cause>>

NoInbound == [method |-> <<>>, path |-> <<>>, header |-> EmptyHeader]

Init ==
  /\ pc = "idle"
  /\ allowedOrigin \in {IF e = "" THEN "*" ELSE e : e \in OriginEnv}
  /\ inbound = NoInbound
  /\ endpoint = <<>>
  /\ req = NoRequest
  /\ resp = NoReply
  /\ out = NoResponse
  /\ upstreamCalls = 0
  /\ proxyCalls = 0
  /\ nResponses = 0
  /\ exit = "running"
  /\ cause = "none"

\* The handler ends having written response o.
Finish(o, why) ==
  /\ out' = o
  /\ nResponses' = nResponses + 1
  /\ pc' = "done"
  /\ exit' = "normal"
  /\ cause' = why

\* The server accepts a request and runs the engine's handler chain.
Receive ==
  \E m \in Methods, p \in InboundPaths, h \in InboundHeaders :
    /\ pc = "idle"
    /\ inbound' = [method |-> m, path |-> p, header |-> h]
    /\ pc' = "middleware"
    /\ UNCHANGED <<allowedOrigin, endpoint, req, resp, out, upstreamCalls,
                   proxyCalls, nResponses, exit, cause>>

\* The CORS middleware (lines 121-132).
CORSMiddleware ==
  /\ pc = "middleware"
  /\ LET h1 == GinHeader(out.header, H_AllowOrigin, allowedOrigin)
         h2 == GinHeader(h1, H_AllowMethods, "GET, POST, PUT, DELETE, OPTIONS")
         h3 == GinHeader(h2, H_AllowHeaders, "Content-Type, Authorization")
         o == [out EXCEPT !.header = h3]
     IN  IF inbound.method = W_OPTIONS
         THEN Finish(AbortWithStatus(o, StatusNoContent), "options")
         ELSE /\ out' = o
              /\ pc' = "dispatch"
              /\ UNCHANGED <<nResponses, exit, cause>>
  /\ UNCHANGED <<allowedOrigin, inbound, endpoint, req, resp, upstreamCalls,
                 proxyCalls>>

\* r.NoRoute (lines 274-279).
NoRouteHandler ==
  /\ pc = "dispatch"
  /\ Lookup(inbound.method, inbound.path) = 0
  /\ Finish(GinJSON(out, StatusNotFound, ErrorBody(MsgNotFound)), "notfound")
  /\ UNCHANGED <<allowedOrigin, inbound, endpoint, req, resp, upstreamCalls,
                 proxyCalls>>

\* GET /health (lines 135-141).
HealthHandler ==
  \E ts \in Timestamps :
    /\ pc = "dispatch"
    /\ \E k \in {Lookup(inbound.method, inbound.path)} :
         k # 0 /\ Routes[k].kind = "health"
    /\ Finish(GinJSON(out, StatusOK,
                      JObj({ <<"status", JStr("healthy")>>,
                             <<"service", JStr("TruckersMP API Proxy")>>,
                             <<"timestamp", JNum(ts)>> })), "health")
    /\ UNCHANGED <<allowedOrigin, inbound, endpoint, req, resp, upstreamCalls,
                   proxyCalls>>

\* A forwarded route's handler (lines 144-271) up to its call of
\* proxyRequest: each rejected parameter gets validateID's 400; when the
\* validation passes, proxyRequest is entered with the formatted endpoint.
RouteHandler ==
  /\ pc = "dispatch"
  /\ \E k \in {Lookup(inbound.method, inbound.path)} :
       /\ k # 0
       /\ Routes[k].kind = "proxy"
       /\ \E v \in {ValidateArgs(Routes[k], inbound.path, 1, <<>>)} :
            /\ out' = Reject(out, v.rejected)
            /\ nResponses' = nResponses + Len(v.rejected)
            /\ IF v.valid
               THEN /\ endpoint' = Sprintf(Routes[k].tmpl, v.ids)
                    /\ proxyCalls' = proxyCalls + 1
                    /\ pc' = "proxy"
                    /\ exit' = exit
                    /\ cause' = IF v.rejected = <<>> THEN cause ELSE "validation"
               ELSE /\ pc' = "done"
                    /\ exit' = "normal"
                    /\ cause' = "validation"
                    /\ UNCHANGED <<endpoint, proxyCalls>>
  /\ UNCHANGED <<allowedOrigin, inbound, req, resp, upstreamCalls>>

\* proxyRequest called on a context of the caller's making.
InvokeDirect ==
  \E m \in DirectMethods, e \in DirectEndpoints, h \in InboundHeaders :
    /\ pc = "idle"
    /\ inbound' = [method |-> m, path |-> e, header |-> h]
    /\ endpoint' = e
    /\ proxyCalls' = proxyCalls + 1
    /\ pc' = "proxy"
    /\ UNCHANGED <<allowedOrigin, req, resp, out, upstreamCalls, nResponses,
                   exit, cause>>

\* proxyRequest, lines 36-58: build the request and call p.client.Do.  When
\* http.NewRequest fails it returns a nil request, and line 40 sets a header
\* on it before line 42 looks at err: the handler panics.
ProxyBuild ==
  /\ pc = "proxy"
  /\ IF ~ValidMethod(inbound.method)
     THEN /\ pc' = "done"
          /\ exit' = "panic"
          /\ cause' = "construct"
          /\ UNCHANGED <<req, upstreamCalls>>
     ELSE /\ req' = BuildRequest(inbound.method, endpoint, inbound.header)
          /\ upstreamCalls' = upstreamCalls + 1
          /\ pc' = "blocked"
          /\ UNCHANGED <<exit, cause>>
  /\ UNCHANGED <<allowedOrigin, inbound, endpoint, resp, out, proxyCalls,
                 nResponses>>

\* client.Do returns the upstream's status line and headers.
UpstreamReply ==
  \E st \in UpstreamStatuses, h \in UpstreamHeaders :
    /\ pc = "blocked"
    /\ resp' = [NoReply EXCEPT !.received = TRUE, !.status = st, !.header = h]
    /\ pc' = "readBody"
    /\ UNCHANGED <<allowedOrigin, inbound, endpoint, req, out, upstreamCalls,
                   proxyCalls, nResponses, exit, cause>>

\* client.Do returns an error (lines 59-65).
DoFailed(why) ==
  /\ pc = "blocked"
  /\ Finish(GinJSON(out, StatusInternalServerError, ErrorBody(MsgFetch)), why)
  /\ UNCHANGED <<allowedOrigin, inbound, endpoint, req, resp, upstreamCalls,
                 proxyCalls>>

\* The network fails.
TransportError == DoFailed("transport")

TimeoutDo_NoTimeout == pc = "blocked" /\ FALSE /\ UNCHANGED vars

\* The client's Timeout (line 28) passes with no reply.
TimeoutDo == DoFailed("timeout")

\* io.ReadAll returns the body (lines 69, 78-94).
ReadBodyOk ==
  \E b \in UpstreamBodies :
    /\ pc = "readBody"
    /\ resp' = [resp EXCEPT !.bodyRead = TRUE, !.body = b]
    /\ Finish(Relay(out, resp, b), "relay")
    /\ UNCHANGED <<allowedOrigin, inbound, endpoint, req, upstreamCalls,
                   proxyCalls>>

\* io.ReadAll returns an error (lines 70-76).
ReadFailed(why) ==
  /\ pc = "readBody"
  /\ Finish(GinJSON(out, StatusInternalServerError, ErrorBody(MsgRead)), why)
  /\ UNCHANGED <<allowedOrigin, inbound, endpoint, req, resp, upstreamCalls,
                 proxyCalls>>

\* The connection breaks while the body is read.
ReadBodyError == ReadFailed("read")

\* The client's Timeout, which keeps running after Do returns, passes while
\* the body is read.
TimeoutRead == ReadFailed("readTimeout")

Forwarding ==
  \/ ProxyBuild
  \/ UpstreamReply
  \/ TransportError
  \/ TimeoutDo
  \/ ReadBodyOk
  \/ ReadBodyError
  \/ TimeoutRead

Next ==
  \/ Receive
  \/ CORSMiddleware
  \/ NoRouteHandler
  \/ HealthHandler
  \/ RouteHandler
  \/ Forwarding

Spec == Init /\ [][Next]_vars

\* The steps the server takes by itself: the handler's goroutine runs, and
\* the client's timer fires when the upstream has not answered.
Progress ==
  \/ CORSMiddleware
  \/ NoRouteHandler
  \/ HealthHandler
  \/ RouteHandler
  \/ ProxyBuild
  \/ TimeoutDo
  \/ TimeoutRead

Fairness == WF_vars(Progress)

FairSpec == Spec /\ Fairness

NextDirect == InvokeDirect \/ Forwarding

SpecDirect == Init /\ [][NextDirect]_vars

----------------------------------------------------------------------------
\* Properties

\* The JSON value a response body holds, number literals kept exact.
BodyValue(body) == Decode(body, FALSE).v

\* The handler chosen for the request has run up to its return or up to its
\* call of proxyRequest.
Handled == pc \in {"proxy", "blocked", "readBody", "done"}

Served == Lookup(inbound.method, inbound.path)

\* A path parameter parses as a non-negative integer.
ParsesNonNegative(s) == ~Atoi(s).err /\ Atoi(s).val >= 0

\* The positions in a route's args of the parameters that do not.
InvalidArgs(route, path) ==
  {k \in 1..Len(route.args) : ~ParsesNonNegative(Param(route, path, route.args[k]))}

FirstInvalid(route, path) ==
  route.args[CHOOSE k \in InvalidArgs(route, path) :
               \A l \in InvalidArgs(route, path) : k <= l]

\* C1 as stated: once an upstream reply with status S has been received the
\* caller is answered with S; a forwarded request that received no reply is
\* answered 500, a rejected parameter 400.
C1_Original ==
  pc = "done" =>
    /\ resp.received => out.status = resp.status
    /\ (proxyCalls > 0 /\ ~resp.received) => out.status = StatusInternalServerError
    /\ cause = "validation" => out.status = StatusBadRequest

\* C1 (amended): a forwarded request whose upstream body was read in full is
\* answered with the upstream status, whatever its range; one that failed
\* before a reply or while the reply's body was read is answered 500; a
\* rejected parameter is answered 400 and proxyRequest is not entered.
C1_StatusRelayed ==
  pc = "done" =>
    /\ resp.bodyRead => out.status = resp.status
    /\ (proxyCalls > 0 /\ ~resp.bodyRead) => out.status = StatusInternalServerError
    /\ cause = "validation" => (out.status = StatusBadRequest /\ proxyCalls = 0)

C1_Witness ==
  /\ pc = "done"
  /\ resp.bodyRead
  /\ resp.status = StatusNotFound
  /\ out.status = StatusNotFound

\* C2: when a parameter of the served route does not parse as a non-negative
\* integer, the handler ends with exactly one response, status 400, body
\* {error: true, message: "Invalid <name> parameter"} for the first such
\* parameter, and proxyRequest is never entered.
C2_ValidationRejects ==
  (Handled /\ Served # 0 /\ InvalidArgs(Routes[Served], inbound.path) # {}) =>
    /\ pc = "done"
    /\ nResponses = 1
    /\ out.status = StatusBadRequest
    /\ BodyValue(out.body) =
         ErrorBody(MsgInvalid(FirstInvalid(Routes[Served], inbound.path)))
    /\ proxyCalls = 0
    /\ upstreamCalls = 0

\* GET /vtc/5/role/1x: the first parameter is valid, the second is not.
C2_Witness ==
  /\ pc = "done"
  /\ inbound.method = W_GET
  /\ inbound.path = <<W_vtc, <<"5">>, W_role, <<"1","x">>>>
  /\ out.status = StatusBadRequest
  /\ BodyValue(out.body) = ErrorBody("Invalid role_id parameter")

\* C3 as stated: a construction failure and a transport failure both end in
\* a 500 JSON response with the same fixed message, a body-read failure in a
\* 500 with another fixed message, and in each case the handler returns
\* normally.
C3_Original ==
  pc = "done" =>
    /\ cause \in {"construct", "transport", "timeout"} =>
         /\ exit = "normal"
         /\ out.status = StatusInternalServerError
         /\ BodyValue(out.body) = ErrorBody(MsgFetch)
    /\ cause \in {"read", "readTimeout"} =>
         /\ exit = "normal"
         /\ out.status = StatusInternalServerError
         /\ BodyValue(out.body) = ErrorBody(MsgRead)
         /\ MsgRead # MsgFetch

\* C4 as stated: every upstream response header is on the relayed response
\* with all of its values, in order.
C4_Original ==
  cause = "relay" =>
    \A n \in HeaderNames :
      resp.header[n] # <<>> => out.header[n] = resp.header[n]

\* C5 as stated: every response carries Access-Control-Allow-Origin equal to
\* the configured origin and the two fixed CORS headers, whatever the
\* upstream sent.
C5_Original ==
  pc = "done" =>
    /\ out.header[H_AllowOrigin] = <<allowedOrigin>>
    /\ out.header[H_AllowMethods] = <<"GET, POST, PUT, DELETE, OPTIONS">>
    /\ out.header[H_AllowHeaders] = <<"Content-Type, Authorization">>

\* C6: a request makes one upstream call when proxyRequest is entered, also
\* when the call fails (no retry), and none when it is answered by /health,
\* the OPTIONS short-circuit, the 404 handler or a validation 400.
C6_OneUpstreamCall ==
  /\ proxyCalls <= 1
  /\ upstreamCalls <= proxyCalls
  /\ (pc \in {"blocked", "readBody", "done"} /\ proxyCalls = 1) => upstreamCalls = 1
  /\ cause \in {"health", "options", "notfound", "validation"} =>
       (upstreamCalls = 0 /\ proxyCalls = 0)

\* The upstream call failed and was not repeated.
C6_Witness ==
  /\ pc = "done"
  /\ cause = "transport"
  /\ upstreamCalls = 1

\* C7: every call of proxyRequest ends with exactly one response and a normal
\* return; when the client's timeout passes with no reply, that response is
\* the 500 with the transport-error message, after a single upstream call.
C7_Completes ==
  /\ (proxyCalls = 1) ~> (pc = "done" /\ nResponses = 1 /\ exit = "normal")
  /\ [](cause = "timeout" =>
          /\ pc = "done"
          /\ exit = "normal"
          /\ nResponses = 1
          /\ upstreamCalls = 1
          /\ out.status = StatusInternalServerError
          /\ BodyValue(out.body) = ErrorBody(MsgFetch))

C7_Witness ==
  /\ pc = "done"
  /\ cause = "timeout"
  /\ out.status = StatusInternalServerError

\* C8 as stated: a body that is JSON is relayed as JSON text of the same
\* value; any other body is relayed unchanged with the upstream Content-Type.
C8_Original ==
  cause = "relay" =>
    IF Decode(resp.body, FALSE).ok
    THEN /\ Decode(out.body, FALSE).ok
         /\ BodyValue(out.body) = BodyValue(resp.body)
    ELSE /\ out.body = resp.body
         /\ HeaderGet(out.header, H_ContentType) = HeaderGet(resp.header, H_ContentType)

DefaultValues(n) ==
  IF n = H_UserAgent THEN <<UserAgent>>
  ELSE IF n = H_Accept THEN <<AcceptJSON>>
  ELSE <<>>

\* C9: the upstream request has the inbound method, no body, the base URL
\* followed by the endpoint, and under each header name the default value
\* (if the name has one) followed by the inbound values in order.
C9_UpstreamRequest ==
  req.built =>
    /\ req.method = inbound.method
    /\ ~req.hasBody
    /\ req.base = TruckersMPAPIBase
    /\ req.path = endpoint
    /\ \A n \in HeaderNames : req.header[n] = DefaultValues(n) \o inbound.header[n]

\* Two inbound Accept values follow the default.
C9_Witness ==
  /\ req.built
  /\ Len(inbound.header[H_Accept]) = 2
  /\ req.header[H_Accept] = <<AcceptJSON>> \o inbound.header[H_Accept]
  /\ req.header[H_Trace] = <<"t1">>

\* A decimal numeral.
Numeral(s) == Len(s) > 0 /\ AllDigits(s)

ParamPositions(pat) == {i \in 1..Len(pat) : ~pat[i].lit}

\* The pattern with each parameter replaced by the integer the path gives.
Expected(pat, path) ==
  [i \in 1..Len(pat) |->
     IF pat[i].lit THEN pat[i].w ELSE NatDigits(DigitsValue(path[i]))]

\* C10 as stated: a GET whose path fits a forwarded route with a numeral for
\* every parameter is forwarded to the route's template with the parameters
\* replaced by those integers.
C10_Original ==
  \A k \in 1..Len(Routes) :
    ( /\ Handled
      /\ inbound.method = W_GET
      /\ Routes[k].kind = "proxy"
      /\ Matches(Routes[k].pat, inbound.path)
      /\ \A i \in ParamPositions(Routes[k].pat) : Numeral(inbound.path[i]) )
    => /\ proxyCalls = 1
       /\ endpoint = Expected(Routes[k].pat, inbound.path)

\* C10 (amended): the same for numerals within the range of int (at most
\* 2^63 - 1 on a 64-bit build).
C10_PathMapping ==
  \A k \in 1..Len(Routes) :
    ( /\ Handled
      /\ inbound.method = W_GET
      /\ Routes[k].kind = "proxy"
      /\ Matches(Routes[k].pat, inbound.path)
      /\ \A i \in ParamPositions(Routes[k].pat) :
           Numeral(inbound.path[i]) /\ ~Exceeds(inbound.path[i], MaxIntDigits) )
    => /\ proxyCalls = 1
       /\ endpoint = Expected(Routes[k].pat, inbound.path)

\* GET /vtc/5/events/attending is forwarded as such.
C10_Witness ==
  /\ proxyCalls = 1
  /\ inbound.path = <<W_vtc, <<"5">>, W_events, W_attending>>
  /\ endpoint = <<W_vtc, <<"5">>, W_events, W_attending>>

====
